---- MODULE Spec2Model ----
(***************************************************************************)
(* Model of bot_address_book_9.py: the validated fields Name and Phone,    *)
(* Record, AddressBook, the input_error decorator, the handlers            *)
(* add_contact and get_phone, and the command loop main().                 *)
(*                                                                         *)
(* A Python str is a sequence of characters.  An ASCII character is the    *)
(* one-character TLA+ string holding it; a character outside ASCII is the  *)
(* string naming its code point ("U+00B2").  Str turns a literal into the  *)
(* sequence of its characters.                                             *)
(***************************************************************************)
EXTENDS Integers, Sequences, FiniteSets, TLC

VARIABLES address_book, pc, com, printed, call, before

vars == <<address_book, pc, com, printed, call, before>>

(***************************************************************************)
(* Characters and the str methods the program calls                        *)
(***************************************************************************)

\* A str literal of the source, as the sequence of its characters.
Str(s) == [i \in 1..Len(s) |-> SubSeq(s, i, i)]

AsciiDigits == {"0", "1", "2", "3", "4", "5", "6", "7", "8", "9"}

\* SUPERSCRIPT TWO and ARABIC-INDIC DIGIT THREE: str.isdigit() is True of
\* them, as of every character whose Unicode property is Numeric_Type=Digit
\* or Decimal.
SUPERSCRIPT_TWO == "U+00B2"
ARABIC_INDIC_THREE == "U+0663"
UnicodeDigits == {SUPERSCRIPT_TWO, ARABIC_INDIC_THREE}

\* The characters str.strip() removes and str.isspace() holds of.
Whitespace == {" ", "\t", "\n", "\r"}

UpperLetters == "ABCDEFGHIJKLMNOPQRSTUVWXYZ"
LowerLetters == "abcdefghijklmnopqrstuvwxyz"

SetMin(S) == CHOOSE x \in S : \A y \in S : x <= y
SetMax(S) == CHOOSE x \in S : \A y \in S : y <= x

\* str.isdigit(): every character is a digit and there is at least one.
isdigit(s) ==
    Len(s) > 0 /\ \A i \in 1..Len(s) : s[i] \in AsciiDigits \cup UnicodeDigits

\* str.strip(): leading and trailing whitespace removed.
strip(s) ==
    LET keep == {i \in 1..Len(s) : s[i] \notin Whitespace}
    IN  IF keep = {} THEN <<>> ELSE SubSeq(s, SetMin(keep), SetMax(keep))

lower_char(c) ==
    IF \E i \in 1..Len(UpperLetters) : SubSeq(UpperLetters, i, i) = c
    THEN LET i == CHOOSE i \in 1..Len(UpperLetters) : SubSeq(UpperLetters, i, i) = c
         IN  SubSeq(LowerLetters, i, i)
    ELSE c

\* str.lower()
lower(s) == [i \in 1..Len(s) |-> lower_char(s[i])]

\* str.startswith(prefix)
startswith(s, prefix) ==
    Len(s) >= Len(prefix) /\ SubSeq(s, 1, Len(prefix)) = prefix

\* str.split(sep) for a one-character sep: every occurrence separates, so
\* empty pieces are kept.
RECURSIVE split(_, _)
split(s, sep) ==
    LET at == {i \in 1..Len(s) : s[i] = sep}
    IN  IF at = {} THEN <<s>>
        ELSE <<SubSeq(s, 1, SetMin(at) - 1)>>
                 \o split(SubSeq(s, SetMin(at) + 1, Len(s)), sep)

\* sep.join(parts)
RECURSIVE join(_, _)
join(sep, parts) ==
    IF parts = <<>> THEN <<>>
    ELSE IF Len(parts) = 1 THEN parts[1]
    ELSE parts[1] \o sep \o join(sep, Tail(parts))

(***************************************************************************)
(* Results of a call: a value, or a raised exception                       *)
(***************************************************************************)

Ok(v) == [exc |-> "none", val |-> v]
Raise(e) == [exc |-> e, val |-> <<>>]

\* Python's None.
None == [none |-> TRUE]

(***************************************************************************)
(* Field, Name, Phone                                                      *)
(***************************************************************************)

Field(value) == [value |-> value]

Name(name) ==
    IF strip(name) = <<>> THEN Raise("ValueError") ELSE Ok(Field(name))

PHONE_LEN == 10

Phone(number) ==
    IF ~isdigit(number) \/ Len(number) # PHONE_LEN
    THEN Raise("ValueError")
    ELSE Ok(Field(number))

(***************************************************************************)
(* Record                                                                  *)
(***************************************************************************)

Record(name) ==
    LET n == Name(name)
    IN  IF n.exc # "none" THEN n ELSE Ok([name |-> n.val, phones |-> <<>>])

add_phone(record, phone_number) ==
    LET p == Phone(phone_number)
    IN  IF p.exc # "none" THEN p
        ELSE Ok([record EXCEPT !.phones = Append(@, p.val)])

Record_str_no_phones(record) ==
    Str("Contact name: ") \o record.name.value \o Str(", phones: ")
Record_str(record) ==
    Str("Contact name: ") \o record.name.value \o Str(", phones: ")
        \o join(Str("; "), [i \in 1..Len(record.phones) |-> record.phones[i].value])

(***************************************************************************)
(* AddressBook: self.records, a dict, as the sequence of its items in      *)
(* insertion order                                                         *)
(***************************************************************************)

AddressBook == <<>>

HasKey(book, name) == \E i \in 1..Len(book) : book[i].key = name

\* dict.__setitem__: an existing key keeps its place and takes the new value.
SetItem(book, key, value) ==
    IF HasKey(book, key)
    THEN [i \in 1..Len(book) |->
            IF book[i].key = key THEN [key |-> key, rec |-> value] ELSE book[i]]
    ELSE Append(book, [key |-> key, rec |-> value])

add_record_appends(book, record) ==
    Append(book, [key |-> record.name.value, rec |-> record])
add_record(book, record) == SetItem(book, record.name.value, record)

find(book, name) ==
    IF HasKey(book, name)
    THEN book[CHOOSE i \in 1..Len(book) : book[i].key = name].rec
    ELSE None

delete(book, name) ==
    IF HasKey(book, name)
    THEN SelectSeq(book, LAMBDA e : e.key # name)
    ELSE book

AddressBook_str_last_only(book) ==
    IF book = <<>> THEN <<>> ELSE Record_str(book[Len(book)].rec)
AddressBook_str(book) ==
    join(Str("\n"), [i \in 1..Len(book) |-> Record_str(book[i].rec)])

(***************************************************************************)
(* input_error and the handlers.  A handler's result is the exception it   *)
(* raised or the string it returned, and the address book it leaves.       *)
(***************************************************************************)

Returned(v, book) == [exc |-> "none", val |-> v, book |-> book]
Raised(e, book) == [exc |-> e, val |-> <<>>, book |-> book]

input_error_passes_ValueError(res) ==
    IF res.exc = "KeyError" THEN Returned(Str("Contact not found."), res.book)
    ELSE IF res.exc = "IndexError" THEN Returned(Str("Not enough arguments."), res.book)
    ELSE res
input_error(res) ==
    IF res.exc = "KeyError" THEN Returned(Str("Contact not found."), res.book)
    ELSE IF res.exc = "ValueError" THEN Returned(Str("Invalid input format."), res.book)
    ELSE IF res.exc = "IndexError" THEN Returned(Str("Not enough arguments."), res.book)
    ELSE res

\* The body of add_contact.  "name, phone = args" raises ValueError unless
\* args has exactly two items.
add_contact_stores_first(args, book) ==
    IF Len(args) # 2 THEN Raised("ValueError", book)
    ELSE LET record == Record(args[1])
         IN  IF record.exc # "none" THEN Raised(record.exc, book)
             ELSE LET stored == add_record(book, record.val)
                      withPhone == add_phone(record.val, args[2])
                  IN  IF withPhone.exc # "none" THEN Raised(withPhone.exc, stored)
                      ELSE Returned(Str("Contact ") \o args[1] \o Str(" added."),
                                    add_record(book, withPhone.val))
add_contact_body(args, book) ==
    IF Len(args) # 2 THEN Raised("ValueError", book)
    ELSE LET record == Record(args[1])
         IN  IF record.exc # "none" THEN Raised(record.exc, book)
             ELSE LET withPhone == add_phone(record.val, args[2])
                  IN  IF withPhone.exc # "none" THEN Raised(withPhone.exc, book)
                      ELSE Returned(Str("Contact ") \o args[1] \o Str(" added."),
                                    add_record(book, withPhone.val))

add_contact(args, book) == input_error(add_contact_body(args, book))

\* The body of get_phone.  args[0] raises IndexError on an empty list; a
\* Record defines neither __bool__ nor __len__, so "if record" is true of
\* every Record and false of None.
get_phone_unchecked(args, book) ==
    IF Len(args) = 0 THEN Raised("IndexError", book)
    ELSE LET record == find(book, args[1])
         IN  IF record # None THEN Returned(Record_str(record), book)
             ELSE Returned(Str("None"), book)
get_phone_body(args, book) ==
    IF Len(args) = 0 THEN Raised("IndexError", book)
    ELSE LET record == find(book, args[1])
         IN  IF record # None THEN Returned(Record_str(record), book)
             ELSE Returned(Str("Contact not found."), book)

get_phone(args, book) == input_error(get_phone_body(args, book))

(***************************************************************************)
(* main(): one iteration of the command loop per action.  Each branch is   *)
(* an operator from the lower-cased line and the address book to what the  *)
(* iteration prints, the address book it leaves, the handler call it made  *)
(* and the exception that escaped the handler, if any.                     *)
(***************************************************************************)

NoCall == [op |-> "none", args |-> <<>>, exc |-> "none", ret |-> <<>>]
CallOf(op, args, res) == [op |-> op, args |-> args, exc |-> res.exc, ret |-> res.val]

Outcome(lines, book, made, exc) ==
    [printed |-> lines, book |-> book, call |-> made, exc |-> exc]

main_hello(book) == Outcome(<<Str("How can I help you?")>>, book, NoCall, "none")

main_add(line, book) ==
    LET parts == split(line, " ")
    IN  IF Len(parts) < 3
        THEN Outcome(<<Str("Invalid format. Use: add [name] [number]")>>,
                     book, NoCall, "none")
        ELSE LET args == <<parts[2], parts[3]>>
                 res == add_contact(args, book)
             IN  Outcome(IF res.exc = "none" THEN <<res.val>> ELSE <<>>,
                         res.book, CallOf("add_contact", args, res), res.exc)

main_phone_always_calls(line, book) ==
    LET args == Tail(split(line, " "))
        res == get_phone(args, book)
    IN  Outcome(IF res.exc = "none" THEN <<res.val>> ELSE <<>>,
                res.book, CallOf("get_phone", args, res), res.exc)
main_phone(line, book) ==
    LET parts == split(line, " ")
    IN  IF Len(parts) < 2
        THEN Outcome(<<Str("Invalid format. Use: phone [name]")>>,
                     book, NoCall, "none")
        ELSE LET args == <<parts[2]>>
                 res == get_phone(args, book)
             IN  Outcome(IF res.exc = "none" THEN <<res.val>> ELSE <<>>,
                         res.book, CallOf("get_phone", args, res), res.exc)

\* "if address_book.records": a dict is true unless it is empty.
main_all(book) ==
    IF book # <<>>
    THEN Outcome(<<Str("Saved contacts:"), AddressBook_str(book)>>, book, NoCall, "none")
    ELSE Outcome(<<Str("No contacts saved yet.")>>, book, NoCall, "none")

main_exit(book) == Outcome(<<Str("Good bye!")>>, book, NoCall, "none")

main_invalid(book) ==
    Outcome(<<Str("Invalid command. Try again.e")>>, book, NoCall, "none")

(***************************************************************************)
(* Inputs                                                                  *)
(***************************************************************************)

\* The longest phone list the calls of add_phone build.
MaxPhones == 2

JOHN == Str("john")
ANN == Str("ann")
P1 == Str("1234567890")
P2 == Str("0987654321")
\* Ten characters str.isdigit() holds of, two of them outside ASCII.
PU == Str("12345678") \o <<SUPERSCRIPT_TWO, ARABIC_INDIC_THREE>>

BadPhones ==
    {Str("123"), Str("12345abcde"), Str("12345678901"), Str("123456789 "), <<>>}

\* The lines input() returns.
Lines ==
    {Str("hello"), Str("Hello"), Str("hello there"),
     Str("add"), Str("add john"), Str("address"),
     Str("Add John 1234567890"), Str("add john 0987654321"),
     Str("add ann 1234567890"), Str("add ann 0987654321 home"),
     Str("add john ") \o PU,
     Str("add ann 123"), Str("add john 12345abcde"), Str("add ann 12345678901"),
     Str("add john "), Str("add  1234567890"), Str("add \t 1234567890"),
     Str("phone"), Str("PHONE"), Str("phonebook"), Str("phone "),
     Str("phone john"), Str("Phone Ann"), Str("phone bob"), Str("phone john ann"),
     Str("all"), Str("ALL"), Str("all "),
     Str("exit"), Str("EXIT"), Str("exit now"),
     Str("delete john"), <<>>}

\* com = input("Enter a command: ").lower()
Commands == {lower(line) : line \in Lines}

\* The args lists a caller hands to add_contact and to get_phone.
AddArgs ==
    {<<>>, <<JOHN>>, <<JOHN, P1, P2>>}
        \cup {<<n, p>> : n \in {JOHN, ANN}, p \in {P1, P2, PU}}
        \cup {<<JOHN, p>> : p \in BadPhones}
        \cup {<<n, P1>> : n \in {<<>>, Str("  "), Str("\t")}}

GetArgs == {<<>>, <<JOHN>>, <<ANN>>, <<Str("John")>>, <<JOHN, ANN>>, <<<<>>>>}

RecordNames == {JOHN, ANN, <<>>, Str("  ")}

\* The numbers a caller hands to add_phone.
PhoneNumbers == {P2, Str("12345abcde"), Str("123")}

(***************************************************************************)
(* The state machine.  pc is "prompt" while main() waits in input(),       *)
(* "exited" after its break, "crashed" if an exception left main(), and    *)
(* "caller" when the classes and handlers are called by a program that     *)
(* imports the module (main() does not run then: its address book is a     *)
(* local of main).  call is the last handler or method call and its        *)
(* result, before the address book as that step found it.                  *)
(***************************************************************************)

Init ==
    /\ address_book = AddressBook
    /\ pc \in {"prompt", "caller"}
    /\ com = <<>>
    /\ printed = <<>>
    /\ call = NoCall
    /\ before = AddressBook

\* One iteration of the while loop, which read command c and took the branch
\* with outcome o.
Iteration(c, o, next) ==
    /\ com' = c
    /\ printed' = o.printed
    /\ address_book' = o.book
    /\ call' = o.call
    /\ before' = address_book
    /\ pc' = IF o.exc = "none" THEN next ELSE "crashed"

Hello ==
    /\ pc = "prompt"
    /\ \E c \in Commands :
          /\ c = Str("hello")
          /\ Iteration(c, main_hello(address_book), "prompt")

Add ==
    /\ pc = "prompt"
    /\ \E c \in Commands :
          /\ c # Str("hello")
          /\ startswith(c, Str("add"))
          /\ Iteration(c, main_add(c, address_book), "prompt")

PhoneCmd ==
    /\ pc = "prompt"
    /\ \E c \in Commands :
          /\ c # Str("hello")
          /\ ~startswith(c, Str("add"))
          /\ startswith(c, Str("phone"))
          /\ Iteration(c, main_phone(c, address_book), "prompt")

All ==
    /\ pc = "prompt"
    /\ \E c \in Commands :
          /\ c = Str("all")
          /\ Iteration(c, main_all(address_book), "prompt")

Exit ==
    /\ pc = "prompt"
    /\ \E c \in Commands :
          /\ c = Str("exit")
          /\ Iteration(c, main_exit(address_book), "exited")

Invalid ==
    /\ pc = "prompt"
    /\ \E c \in Commands :
          /\ c \notin {Str("hello"), Str("all"), Str("exit")}
          /\ ~startswith(c, Str("add"))
          /\ ~startswith(c, Str("phone"))
          /\ Iteration(c, main_invalid(address_book), "prompt")

\* A call made by an importing program: the address book it leaves, and the
\* call with its result.
Called(book, made) ==
    /\ address_book' = book
    /\ call' = made
    /\ before' = address_book
    /\ UNCHANGED <<pc, com, printed>>

AddContactCall ==
    /\ pc = "caller"
    /\ \E args \in AddArgs :
          LET res == add_contact(args, address_book)
          IN  Called(res.book, CallOf("add_contact", args, res))

GetPhoneCall ==
    /\ pc = "caller"
    /\ \E args \in GetArgs :
          LET res == get_phone(args, address_book)
          IN  Called(res.book, CallOf("get_phone", args, res))

\* address_book.find(name).add_phone(number): the Record in the dict is the
\* object the call appends to.
AddPhoneCall ==
    /\ pc = "caller"
    /\ \E i \in 1..Len(address_book), number \in PhoneNumbers :
          /\ Len(address_book[i].rec.phones) < MaxPhones
          /\ LET res == add_phone(address_book[i].rec, number)
             IN  Called(IF res.exc = "none"
                        THEN [address_book EXCEPT ![i].rec = res.val]
                        ELSE address_book,
                        [op |-> "add_phone", args |-> <<address_book[i].key, number>>,
                         exc |-> res.exc, ret |-> <<>>])

\* address_book.add_record(Record(name))
AddRecordCall ==
    /\ pc = "caller"
    /\ \E name \in RecordNames :
          LET res == Record(name)
          IN  Called(IF res.exc = "none"
                     THEN add_record(address_book, res.val)
                     ELSE address_book,
                     [op |-> "add_record", args |-> <<name>>,
                      exc |-> res.exc, ret |-> <<>>])

DeleteCall ==
    /\ pc = "caller"
    /\ \E name \in RecordNames :
          Called(delete(address_book, name),
                 [op |-> "delete", args |-> <<name>>, exc |-> "none", ret |-> <<>>])

Next ==
    \/ Hello
    \/ Add
    \/ PhoneCmd
    \/ All
    \/ Exit
    \/ Invalid
    \/ AddContactCall
    \/ GetPhoneCall
    \/ AddPhoneCall
    \/ AddRecordCall
    \/ DeleteCall

Spec == Init /\ [][Next]_vars

(***************************************************************************)
(* Properties                                                              *)
(***************************************************************************)

Contains(s, sub) ==
    \E i \in 1..(Len(s) - Len(sub) + 1) : SubSeq(s, i, i + Len(sub) - 1) = sub

\* The last step called add_contact and it returned its confirmation.
AddSucceeded ==
    /\ call.op = "add_contact"
    /\ call.exc = "none"
    /\ Len(call.args) = 2
    /\ call.ret = Str("Contact ") \o call.args[1] \o Str(" added.")

ErrorMessages ==
    {Str("Contact not found."), Str("Invalid input format."), Str("Not enough arguments.")}

\* The Phone invariant of the data model: exactly 10 characters, each an
\* ASCII digit.
TenAsciiDigits(s) == Len(s) = 10 /\ \A i \in 1..Len(s) : s[i] \in AsciiDigits

\* C1: after add_contact([n, p], store) with a name and a phone that pass
\* validation, whatever the store held before, get_phone([n], store) returns
\* the rendered record of n, "Contact name: n, phones: p", which contains p.
C1_AddThenLookup ==
    (/\ call.op = "add_contact"
     /\ Len(call.args) = 2
     /\ Name(call.args[1]).exc = "none"
     /\ Phone(call.args[2]).exc = "none")
    => LET n == call.args[1]
           p == call.args[2]
           got == get_phone(<<n>>, address_book)
       IN  /\ call.exc = "none"
           /\ got.exc = "none"
           /\ got.book = address_book
           /\ got.val = Str("Contact name: ") \o n \o Str(", phones: ") \o p
           /\ Contains(got.val, p)

\* add_contact stored a valid contact over a store that already held that
\* name with other phones and held another contact too.
C1_Witness ==
    /\ AddSucceeded
    /\ Len(before) = 2
    /\ HasKey(before, call.args[1])
    /\ find(before, call.args[1]).phones # <<Field(call.args[2])>>

\* C2: an add_contact for a name the store already holds overwrites: the
\* store has as many entries as before (one, when the first add was made on
\* an empty store), the name is a key once, and its record's phone list is
\* exactly the phone of the second add.  On a new name the store grows by one.
C2_SameNameOverwrites ==
    AddSucceeded
    => LET n == call.args[1]
           p == call.args[2]
       IN  /\ HasKey(before, n) => Len(address_book) = Len(before)
           /\ ~HasKey(before, n) => Len(address_book) = Len(before) + 1
           /\ Cardinality({i \in 1..Len(address_book) : address_book[i].key = n}) = 1
           /\ find(address_book, n) # None
           /\ find(address_book, n).phones = <<Field(p)>>

\* The second add of a name, with another phone than the first, on a store
\* that held only that name.
C2_Witness ==
    /\ AddSucceeded
    /\ Len(before) = 1
    /\ Len(address_book) = 1
    /\ before[1].key = call.args[1]
    /\ before[1].rec.phones = <<Field(P1)>>
    /\ call.args[2] = P2

\* C3: get_phone([name], store) for a name that is no key of the store
\* returns "Contact not found." and raises nothing.
C3_UnknownName ==
    (/\ call.op = "get_phone"
     /\ Len(call.args) = 1
     /\ ~HasKey(before, call.args[1]))
    => /\ call.exc = "none"
       /\ call.ret = Str("Contact not found.")

\* get_phone was called for an unknown name on a store that holds a contact.
C3_Witness ==
    /\ call.op = "get_phone"
    /\ Len(call.args) = 1
    /\ before # <<>>
    /\ ~HasKey(before, call.args[1])

\* C4: add_contact with fewer than 2 arguments returns "Not enough
\* arguments.".
C4_FewerThanTwoArgs ==
    (call.op = "add_contact" /\ Len(call.args) < 2)
    => call.ret = Str("Not enough arguments.")

\* C5 as stated: the line "phone" with no name prints "Not enough
\* arguments.".
C5_PhoneNoName_Original ==
    (pc = "prompt" /\ com = Str("phone"))
    => printed = <<Str("Not enough arguments.")>>

\* C5, amended: in any store state the line "phone" with no name prints
\* "Invalid format. Use: phone [name]"; get_phone is not called and the
\* store is as it was.
C5_PhoneNoName ==
    (pc = "prompt" /\ com = Str("phone"))
    => /\ printed = <<Str("Invalid format. Use: phone [name]")>>
       /\ call = NoCall
       /\ address_book = before

\* The line "phone" was read while the store held a contact.
C5_Witness ==
    /\ pc = "prompt"
    /\ com = Str("phone")
    /\ address_book # <<>>

\* C6: an add line whose phone token is not exactly 10 digit characters
\* prints "Invalid input format."; add_contact returns that string for every
\* such phone and for a name that is empty after trimming.
C6_InvalidPhoneRejected ==
    /\ (/\ pc = "prompt"
        /\ com # Str("hello")
        /\ startswith(com, Str("add"))
        /\ Len(split(com, " ")) >= 3
        /\ ~TenAsciiDigits(split(com, " ")[3]))
       => printed = <<Str("Invalid input format.")>>
    /\ (/\ call.op = "add_contact"
        /\ Len(call.args) = 2
        /\ (~TenAsciiDigits(call.args[2]) \/ strip(call.args[1]) = <<>>))
       => call.ret = Str("Invalid input format.")

\* C7: the command "all" prints "No contacts saved yet." exactly when the
\* store is empty; otherwise it prints "Saved contacts:" and then one line
\* per stored record, its rendered form, each stored name on exactly one line.
C7_AllLists ==
    (pc = "prompt" /\ com = Str("all"))
    => /\ address_book = <<>> <=> printed = <<Str("No contacts saved yet.")>>
       /\ address_book # <<>> =>
            /\ Len(printed) = 2
            /\ printed[1] = Str("Saved contacts:")
            /\ LET lines == split(printed[2], "\n")
               IN  /\ Len(lines) = Len(address_book)
                   /\ \A e \in 1..Len(address_book) :
                        LET r == address_book[e].rec
                            rendered ==
                                Str("Contact name: ") \o r.name.value \o Str(", phones: ")
                                    \o join(Str("; "),
                                            [j \in 1..Len(r.phones) |-> r.phones[j].value])
                        IN  /\ Cardinality({i \in 1..Len(lines) : lines[i] = rendered}) = 1
                            /\ Cardinality({i \in 1..Len(lines) :
                                   startswith(lines[i],
                                              Str("Contact name: ") \o address_book[e].key
                                                  \o Str(", "))}) = 1

\* "all" was read while the store held two contacts.
C7_Witness ==
    /\ pc = "prompt"
    /\ com = Str("all")
    /\ Len(address_book) = 2

\* C8: no command outcome is fatal.  An iteration of the loop that read
\* anything but "exit" ends back at the prompt; the loop ends only on "exit",
\* after printing "Good bye!"; and nothing follows the end of the loop.
C8_NoFatalOutcome ==
    [][/\ pc = "prompt" =>
            IF com' = Str("exit")
            THEN pc' = "exited" /\ printed' = <<Str("Good bye!")>>
            ELSE pc' = "prompt"
       /\ pc' \in {"exited", "crashed"} =>
            pc = "prompt" /\ pc' = "exited" /\ com' = Str("exit")]_vars

\* The loop is back at the prompt after a line that failed validation.
C8_Witness ==
    /\ pc = "prompt"
    /\ call.op = "add_contact"
    /\ printed = <<Str("Invalid input format.")>>

\* C9: every stored record has a name that is not empty or all-whitespace,
\* phones of exactly 10 ASCII digits each, and is stored under its own name.
C9_StoredFieldsValid ==
    \A i \in 1..Len(address_book) :
        LET r == address_book[i].rec
        IN  /\ strip(r.name.value) # <<>>
            /\ \A j \in 1..Len(r.phones) : TenAsciiDigits(r.phones[j].value)
            /\ address_book[i].key = r.name.value

\* C10: an add_contact call that returns an error message leaves the store
\* as it was, keys and phone lists; get_phone never changes the store.
C10_FailedAddKeepsStore ==
    /\ (call.op = "add_contact" /\ (call.exc # "none" \/ call.ret \in ErrorMessages))
       => address_book = before
    /\ call.op = "get_phone" => address_book = before

\* add_contact failed on the phone for a name the store already held.
C10_Witness ==
    /\ call.op = "add_contact"
    /\ call.ret = Str("Invalid input format.")
    /\ Len(call.args) = 2
    /\ HasKey(before, call.args[1])
    /\ Name(call.args[1]).exc = "none"

====
